---------------------------- MODULE Spec2Model ----------------------------
(***************************************************************************)
(* The Embed tool of editorjs-embed (src/src/index.js): the static service *)
(* registry built by Embed.prepare, URL classification (_checkedUrl),      *)
(* embed resolution (_getEmbedData), link-preview normalisation            *)
(* (_getOgData) and the tool's data / view life cycle (constructor,        *)
(* set data, get data, render, save).                                      *)
(*                                                                         *)
(* Strings are sequences of tokens.  A token is either one character       *)
(* ("a", "$", "&", "'", " ") or a literal segment that the patterns look   *)
(* for as a whole ("http://", "https://", "www.", "yt", "vm", "cu", the    *)
(* placeholder "<%= remote_id %>").  The JavaScript value undefined is     *)
(* Undefined for atoms and UndefinedSeq for strings.                       *)
(***************************************************************************)
EXTENDS Integers, Sequences, FiniteSets, TLC

VARIABLES
    services,    \* Embed.services: ordered name -> descriptor
    patterns,    \* Embed.patterns: ordered name -> RegExp object
    lastIndex,   \* lastIndex of every RegExp object
    tool,        \* "unprepared", "none" (no instance yet) or "constructed"
    data,        \* this._data
    element,     \* this.element: the current view, or NoView
    nextView,    \* identity of the next container render() creates
    pending,     \* metadata requests in flight
    saved,       \* the record the last save() returned
    restored,    \* the record the tool was constructed from, while the user
                 \* has neither submitted a URL nor edited the caption since
    resolved,    \* the previous outcome of _getEmbedData on this registry
    op           \* the last operation and its outcome

vars == <<services, patterns, lastIndex, tool, data, element, nextView,
          pending, saved, restored, resolved, op>>

-----------------------------------------------------------------------------
(* Values *)

Undefined == "<undefined>"
UndefinedSeq == <<Undefined>>
Null == "<null>"

\* String(undefined), as String.prototype.replace converts its replacement.
ToStr(s) == IF s = UndefinedSeq THEN <<"undefined">> ELSE s

Placeholder == "<%= remote_id %>"

RECURSIVE Concat(_)
Concat(ss) == IF ss = <<>> THEN <<>> ELSE Head(ss) \o Concat(Tail(ss))

\* The first position >= from where s holds the token t, 0 when there is none.
RECURSIVE IndexOf(_, _, _)
IndexOf(s, t, from) ==
    IF from > Len(s) THEN 0
    ELSE IF s[from] = t THEN from ELSE IndexOf(s, t, from + 1)

-----------------------------------------------------------------------------
(* Regular expressions *)

\* The characters a service pattern captures: ([a-z$&']+)
CapChars == {"a", "b", "$", "&", "'"}

\* The RegExp objects of the program: those of the built-in table and those a
\* caller hands to prepare.  Each is /<lit>(<CapChars>+)/, with the group's
\* quantifier "plus" (+), "star" (*) or "opt" ((...+)?), and possibly the g flag.
RegexObjs == {"reYoutube", "reVimeo", "reCustom", "reCustomG", "reCustomOpt", "reYtStar"}

RegexDef(r) ==
    CASE r = "reYoutube"   -> [lit |-> "yt", cap |-> "plus", global |-> FALSE]
      [] r = "reVimeo"     -> [lit |-> "vm", cap |-> "plus", global |-> FALSE]
      [] r = "reCustom"    -> [lit |-> "cu", cap |-> "plus", global |-> FALSE]
      [] r = "reCustomG"   -> [lit |-> "cu", cap |-> "plus", global |-> TRUE]
      [] r = "reCustomOpt" -> [lit |-> "cu", cap |-> "opt", global |-> FALSE]
      [] r = "reYtStar"    -> [lit |-> "yt", cap |-> "star", global |-> FALSE]

\* Length of the maximal run of capturable characters of s starting at i.
RECURSIVE RunLen(_, _)
RunLen(s, i) ==
    IF i > Len(s) \/ s[i] \notin CapChars THEN 0 ELSE 1 + RunLen(s, i + 1)

MatchAt(re, s, i) ==
    /\ s[i] = re.lit
    /\ re.cap = "plus" => RunLen(s, i + 1) > 0

RECURSIVE FirstMatch(_, _, _)
FirstMatch(re, s, from) ==
    IF from > Len(s) THEN 0
    ELSE IF MatchAt(re, s, from) THEN from ELSE FirstMatch(re, s, from + 1)

NoMatch == [found |-> FALSE, cap |-> UndefinedSeq, lastIndex |-> 0]

\* RegExp.prototype.exec (and test, which is exec # null) on the object r whose
\* lastIndex is li: without the g flag the search starts at 0 and lastIndex is
\* left alone; with it the search starts at lastIndex, which becomes the end of
\* the match, or 0 when there is none.
RegexExec(r, li, s) ==
    LET re    == RegexDef(r)
        start == IF re.global THEN li ELSE 0
        at    == FirstMatch(re, s, start + 1)
        n     == RunLen(s, at + 1)
    IN  IF at = 0 THEN [NoMatch EXCEPT !.lastIndex = IF re.global THEN 0 ELSE li]
        ELSE [found |-> TRUE,
              cap |-> IF n > 0 THEN SubSeq(s, at + 1, at + n)
                      ELSE IF re.cap = "opt" THEN UndefinedSeq ELSE <<>>,
              lastIndex |-> IF re.global THEN at + n ELSE li]

\* The pattern of r matches s: what a fresh evaluation (lastIndex 0) finds.
Matches(r, s) == FirstMatch(RegexDef(r), s, 1) # 0

\* The generic pattern of _checkedUrl,
\*   /(?:http[s]?:\/\/)|(?:www\.)([a-zA-Z0-9\-\._\?\,\'\/\\\+&%\$#\=~:]+)/
\* It has no flags.  Every token but the space begins with a character of its
\* class.
EtcAllowed(t) == t # " "

EtcMatches(s) ==
    \E i \in 1..Len(s) :
        \/ s[i] \in {"http://", "https://"}
        \/ s[i] = "www." /\ i < Len(s) /\ EtcAllowed(s[i + 1])

-----------------------------------------------------------------------------
(* JavaScript objects as ordered maps: a sequence of [key, value], in insertion
   order (every name of the model is a non-integer key). *)

HasKey(obj, k) == \E i \in 1..Len(obj) : obj[i].key = k

Get(obj, k) == obj[CHOOSE i \in 1..Len(obj) : obj[i].key = k].value

Keys(obj) == [i \in 1..Len(obj) |-> obj[i].key]

\* obj[k] = v: an existing key keeps its place, a new one goes last.
Put(obj, k, v) ==
    IF HasKey(obj, k)
    THEN [i \in 1..Len(obj) |-> IF obj[i].key = k THEN [key |-> k, value |-> v] ELSE obj[i]]
    ELSE Append(obj, [key |-> k, value |-> v])

-----------------------------------------------------------------------------
(* The registry *)

ServiceFields == {"regex", "embedUrl", "html", "id"}

\* The built-in table imported from ./services: one service that relies on the
\* default id extractor and one that defines its own.  own: the object's keys.
SERVICES ==
    << [key |-> "youtube",
        value |-> [regex |-> "reYoutube", embedUrl |-> <<"embed.yt/", Placeholder>>,
                   html |-> "<iframe yt>", id |-> Undefined],
        own |-> {"regex", "embedUrl", "html"}],
       [key |-> "vimeo",
        value |-> [regex |-> "reVimeo", embedUrl |-> <<"embed.vm/", Placeholder>>,
                   html |-> "<iframe vm>", id |-> "tagged"],
        own |-> ServiceFields] >>

\* What a caller passes as config.services[name].
Obj(regex, embedUrl, html, id) ==
    [type |-> "object", bool |-> FALSE,
     obj |-> [regex |-> regex, embedUrl |-> embedUrl, html |-> html, id |-> id]]

NoObj == [regex |-> Undefined, embedUrl |-> UndefinedSeq, html |-> Undefined, id |-> Undefined]

True == [type |-> "boolean", bool |-> TRUE, obj |-> NoObj]
False == [type |-> "boolean", bool |-> FALSE, obj |-> NoObj]
NullValue == [type |-> "null", bool |-> FALSE, obj |-> NoObj]
ArrayValue == [type |-> "array", bool |-> FALSE, obj |-> NoObj]

\* The functions a service may give as id (see ApplyId).
IdFns == {"first", "tagged", "join"}

\* typeof value === 'object'
TypeofObject(v) == v.type \in {"object", "null", "array"}

\* Values of a descriptor's fields that have the wrong type: a string where a
\* RegExp is expected, a number where a string is, a string where a function is.
NotRegExp == "<string>"
NumberSeq == <<"<number>">>
Number == "<number>"
NotFunction == "<not a function>"

\* typeof x === 'string' and x is truthy, for the two representations of strings.
IsNonEmptyStringSeq(x) == x \notin {UndefinedSeq, NumberSeq, <<>>}
IsNonEmptyString(x) == x \notin {Undefined, Number, ""}

\* checkServiceConfig without the test of id.
checkServiceConfigAnyId(config) ==
    /\ config.obj.regex \in RegexObjs
    /\ IsNonEmptyStringSeq(config.obj.embedUrl)
    /\ IsNonEmptyString(config.obj.html)

\* checkServiceConfig: the value the filter of prepare reads as a boolean.
checkServiceConfig(config) ==
    LET regex == config.obj.regex
        embedUrl == config.obj.embedUrl
        html == config.obj.html
        id == config.obj.id
        isValid == /\ regex # Undefined /\ regex \in RegexObjs
                   /\ embedUrl # UndefinedSeq /\ IsNonEmptyStringSeq(embedUrl)
                   /\ html # Undefined /\ IsNonEmptyString(html)
    IN  isValid /\ (IF id # Undefined THEN id \in IdFns ELSE TRUE)

\* Destructuring null throws a TypeError.
checkServiceConfigThrows(config) == config.type = "null"

\* Object.assign({}, target, source): every own key of source replaces the
\* target's value, also one whose value is undefined.
ObjectAssign(target, source, own) ==
    [f \in ServiceFields |-> IF f \in own THEN source[f] ELSE target[f]]

RECURSIVE ReduceServices(_, _)
ReduceServices(result, entries) ==
    IF entries = <<>> THEN result
    ELSE LET e == Head(entries)
         IN  ReduceServices(
                 IF ~HasKey(result, e.key) THEN Put(result, e.key, e.value)
                 ELSE Put(result, e.key, ObjectAssign(Get(result, e.key), e.value, e.own)),
                 Tail(entries))

RECURSIVE ReducePatterns(_, _)
ReducePatterns(result, entries) ==
    IF entries = <<>> THEN result
    ELSE ReducePatterns(Put(result, Head(entries).key, Head(entries).value.regex),
                        Tail(entries))

\* enabledServices without the test value === true.
enabledServicesAnyBoolean(config) ==
    {config[i].key : i \in {j \in 1..Len(config) : config[j].value.type = "boolean"}}

enabledServices(config) ==
    {config[i].key : i \in {j \in 1..Len(config) :
                               config[j].value.type = "boolean" /\ config[j].value.bool}}

\* The object literal of lines 482-487 has the four keys, id included.
userServices(config) ==
    LET kept == SelectSeq(config, LAMBDA e : TypeofObject(e.value) /\ checkServiceConfig(e.value))
    IN  [i \in 1..Len(kept) |->
            [key |-> kept[i].key, value |-> kept[i].value.obj, own |-> ServiceFields]]

PrepareEntries(config) ==
    LET enabled == enabledServices(config)
        defaults == IF enabled # {} THEN SelectSeq(SERVICES, LAMBDA e : e.key \in enabled)
                    ELSE SERVICES
    IN  defaults \o userServices(config)

PrepareThrows(config) ==
    \E i \in 1..Len(config) :
        TypeofObject(config[i].value) /\ checkServiceConfigThrows(config[i].value)

PrepareServices(config) == ReduceServices(<<>>, PrepareEntries(config))

PreparePatterns(config) == ReducePatterns(<<>>, PrepareEntries(config))

-----------------------------------------------------------------------------
(* Resolution of the embed locator: _getEmbedData *)

\* The id extractor on the capture groups ids (exec(...).slice(1)):
\*   absent   (ids) => ids.shift(), the default of line 224
\*   "first"  (ids) => ids[0]
\*   "tagged" (ids) => 'v' + ids[0]
\*   "join"   (ids) => ids.join('/')   (join writes undefined as '')
ApplyId(id, ids) ==
    CASE id \in {Undefined, "first"} -> ids[1]
      [] id = "tagged" -> <<"v">> \o ToStr(ids[1])
      [] id = "join" -> IF ids[1] = UndefinedSeq THEN <<>> ELSE ids[1]

\* GetSubstitution of String.prototype.replace for a pattern without groups:
\* in the replacement r, from position i on, $$ is $, $& the matched text,
\* $` the text before the match, $' the text after it; any other $ is itself.
RECURSIVE GetSubstitution(_, _, _, _, _)
GetSubstitution(r, i, matched, before, after) ==
    IF i > Len(r) THEN <<>>
    ELSE IF r[i] = "$" /\ i < Len(r) /\ r[i + 1] \in {"$", "&", "`", "'"}
         THEN (CASE r[i + 1] = "$" -> <<"$">>
                 [] r[i + 1] = "&" -> matched
                 [] r[i + 1] = "`" -> before
                 [] r[i + 1] = "'" -> after)
              \o GetSubstitution(r, i + 2, matched, before, after)
         ELSE <<r[i]>> \o GetSubstitution(r, i + 1, matched, before, after)

\* embedUrl.replace(/<%= remote_id %>/g, replacement)
ReplaceRemoteId(embedUrl, replacement) ==
    LET r == ToStr(replacement)
    IN  Concat([p \in 1..Len(embedUrl) |->
            IF embedUrl[p] = Placeholder
            THEN GetSubstitution(r, 1, <<Placeholder>>,
                                 SubSeq(embedUrl, 1, p - 1),
                                 SubSeq(embedUrl, p + 1, Len(embedUrl)))
            ELSE <<embedUrl[p]>>])

\* The template with every placeholder replaced by exactly the text id.
Substituted(embedUrl, id) ==
    Concat([p \in 1..Len(embedUrl) |->
        IF embedUrl[p] = Placeholder THEN id ELSE <<embedUrl[p]>>])

NoResolve ==
    [called |-> FALSE, service |-> Undefined, source |-> UndefinedSeq, regex |-> Undefined,
     threw |-> FALSE, found |-> FALSE, id |-> UndefinedSeq, embedUrl |-> UndefinedSeq,
     html |-> Undefined, embed |-> UndefinedSeq, lastIndex |-> 0]

\* _getEmbedData with (regex.exec(source) || []).slice(1) in the place of
\* line 225: without a match the id is undefined and a locator is returned.
getEmbedDataLenient(svcs, li, service, source) ==
    IF ~HasKey(svcs, service)
    THEN [NoResolve EXCEPT !.called = TRUE, !.service = service, !.source = source,
                           !.threw = TRUE]
    ELSE LET s == Get(svcs, service)
             result == RegexExec(s.regex, li[s.regex], source)
             idv == ApplyId(s.id, <<result.cap>>)
         IN  [called |-> TRUE, service |-> service, source |-> source,
              regex |-> s.regex, threw |-> FALSE, found |-> result.found, id |-> idv,
              embedUrl |-> s.embedUrl, html |-> s.html,
              embed |-> ReplaceRemoteId(s.embedUrl, idv),
              lastIndex |-> result.lastIndex]

\* _getEmbedData(service, source) on the registry svcs, the RegExp object's
\* lastIndex being li[regex].  threw: Embed.services[service] is undefined
\* (destructuring throws) or exec returned null (null.slice throws); then no
\* locator is returned and this.data.embed is not assigned.
getEmbedData(svcs, li, service, source) ==
    IF ~HasKey(svcs, service)
    THEN [NoResolve EXCEPT !.called = TRUE, !.service = service, !.source = source,
                           !.threw = TRUE]
    ELSE LET s == Get(svcs, service)
             result == RegexExec(s.regex, li[s.regex], source)
             idv == ApplyId(s.id, <<result.cap>>)
         IN  IF ~result.found
             THEN [NoResolve EXCEPT !.called = TRUE, !.service = service,
                                    !.source = source, !.regex = s.regex,
                                    !.embedUrl = s.embedUrl, !.threw = TRUE,
                                    !.lastIndex = result.lastIndex]
             ELSE [called |-> TRUE, service |-> service, source |-> source,
                   regex |-> s.regex, threw |-> FALSE, found |-> TRUE, id |-> idv,
                   embedUrl |-> s.embedUrl, html |-> s.html,
                   embed |-> ReplaceRemoteId(s.embedUrl, idv),
                   lastIndex |-> result.lastIndex]

\* lastIndex after a call of _getEmbedData.
AfterResolve(li, res) ==
    IF res.regex = Undefined THEN li ELSE [li EXCEPT ![res.regex] = res.lastIndex]

-----------------------------------------------------------------------------
(* Classification: _checkedUrl, lines 277-294 *)

\* { ...Embed.patterns, etc: <generic> }: the key etc keeps the place it has in
\* Embed.patterns, if any, and always gets the generic pattern.
EtcRegex == "<etc>"

ClassifyPatterns(pats) == Put(pats, "etc", EtcRegex)

\* Object.entries(patterns).some(...): test the patterns in order from the
\* i-th; the first that matches gives the service, and every test of a RegExp
\* object with the g flag moves its lastIndex.
RECURSIVE Some(_, _, _, _)
Some(ps, i, li, url) ==
    IF i > Len(ps) THEN [service |-> "", lastIndex |-> li]
    ELSE IF ps[i].value = EtcRegex
         THEN IF EtcMatches(url) THEN [service |-> ps[i].key, lastIndex |-> li]
              ELSE Some(ps, i + 1, li, url)
         ELSE LET t == RegexExec(ps[i].value, li[ps[i].value], url)
                  li2 == [li EXCEPT ![ps[i].value] = t.lastIndex]
              IN  IF t.found THEN [service |-> ps[i].key, lastIndex |-> li2]
                  ELSE Some(ps, i + 1, li2, url)

Classify(pats, li, url) == Some(ClassifyPatterns(pats), 1, li, url)

-----------------------------------------------------------------------------
(* Link preview: the normalisation of _getOgData, lines 249-270 *)

\* a || b on JSON values
Falsy(x) == x \in {Undefined, Null, ""}

\* a ?? b in the place of a || b: an empty string does not fall through.
OrNullish(a, b) == IF a \in {Undefined, Null} THEN b ELSE a

Or(a, b) == IF Falsy(a) THEN b ELSE a

\* image?.url: an image is <<>> (absent) or <<url>> (an object and its url).
OptUrl(image) == IF image = <<>> THEN Undefined ELSE image[1]

\* String.prototype.includes('https://')
Includes(s, t) == IndexOf(s, t, 1) # 0

\* favicon?.includes('https://') ? favicon : ''
OgIcon(favicon) ==
    IF favicon = UndefinedSeq THEN <<>>
    ELSE IF Includes(favicon, "https://") THEN favicon ELSE <<>>

OgNormalize(m) ==
    [title |-> Or(Or(m.ogTitle, m.twitterTitle), ""),
     description |-> Or(Or(m.ogDescription, m.twitterDescription), ""),
     imageUrl |-> Or(Or(OptUrl(m.ogImage), OptUrl(m.twitterImage)), ""),
     url |-> Or(Or(m.ogUrl, m.requestUrl), ""),
     icon |-> OgIcon(m.favicon),
     siteName |-> Or(Or(Or(Or(m.ogSiteName, m.twitterSite), m.ogTitle), m.twitterTitle), "")]

-----------------------------------------------------------------------------
(* The tool: data, view, render *)

EmptyData ==
    [service |-> Undefined, source |-> UndefinedSeq, embed |-> UndefinedSeq,
     caption |-> Undefined]

NoRecord ==
    [service |-> "<none>", source |-> UndefinedSeq, embed |-> UndefinedSeq,
     caption |-> Undefined]

\* A container built by render.  kind: "form" (the form alone), "embed" or
\* "etc".  source is the URL its form and preloader show, caption the value
\* of the caption input, hasCaption whether the
\* input has been appended to the container.  card: <<>> or <<the preview>>.
NoView ==
    [id |-> 0, kind |-> "none", hasCaption |-> FALSE, caption |-> "",
     source |-> UndefinedSeq, card |-> <<>>, message |-> ""]

ErrorMessage == "invalid-url"

\* String(err) of the SyntaxError that response.json() rejects with.
SyntaxErrorMessage == "SyntaxError: Unexpected token"

\* get data, lines 108-116: with a view, the caption is read from its input.
GetData(d, el) ==
    IF el.kind # "none"
    THEN [d EXCEPT !.caption = IF el.hasCaption THEN el.caption ELSE ""]
    ELSE d

\* The assignment of set data, lines 93-96.
AssignData(new, d, el) ==
    [new EXCEPT !.caption = Or(Or(new.caption, GetData(d, el).caption), "")]

\* render(), lines 147-217, on this._data = d with the current view el: the
\* new container, this._data afterwards, the lastIndex values, whether a
\* metadata request was started and what _getEmbedData did.  When it throws
\* no container is returned and this.element keeps its value.
Render(d, el, svcs, li, id) ==
    LET d1 == GetData(d, el)
        res == getEmbedData(svcs, li, d1.service, d1.source)
        view == [NoView EXCEPT !.id = id, !.source = d1.source,
                                !.caption = Or(d1.caption, "")]
    IN  IF Falsy(d1.service)
        THEN [threw |-> FALSE, data |-> d1, element |-> [view EXCEPT !.kind = "form"],
              lastIndex |-> li, fetch |-> FALSE, resolve |-> NoResolve]
        ELSE IF d1.service # "etc"
        THEN IF res.threw
             THEN [threw |-> TRUE, data |-> d1, element |-> el,
                   lastIndex |-> AfterResolve(li, res), fetch |-> FALSE, resolve |-> res]
             ELSE [threw |-> FALSE, data |-> [d1 EXCEPT !.embed = res.embed],
                   element |-> [view EXCEPT !.kind = "embed", !.hasCaption = TRUE],
                   lastIndex |-> AfterResolve(li, res), fetch |-> FALSE, resolve |-> res]
        ELSE [threw |-> FALSE, data |-> d1, element |-> [view EXCEPT !.kind = "etc"],
              lastIndex |-> li, fetch |-> TRUE, resolve |-> NoResolve]

\* set data, lines 88-103: assign, then re-render when there is a view.
SetData(new, d, el, svcs, li, id) ==
    LET d1 == AssignData(new, d, el)
    IN  IF el.kind = "none"
        THEN [threw |-> FALSE, data |-> d1, element |-> el, lastIndex |-> li,
              fetch |-> FALSE, resolve |-> NoResolve]
        ELSE Render(d1, el, svcs, li, id)

\* _checkedUrl(url), lines 276-300.
checkedUrl(url, d, el, svcs, pats, li, id) ==
    LET c == Classify(pats, li, url)
        r == SetData([EmptyData EXCEPT !.service = c.service, !.source = url],
                     d, el, svcs, c.lastIndex, id)
    IN  [service |-> c.service, set |-> r]

-----------------------------------------------------------------------------
(* Inputs *)

\* The number of containers one tool instance builds.
MaxViews == 2

\* The length of a favicon value, in tokens.
MaxIconLen == 2

Template1 == <<"embed.cu/", Placeholder>>
Template2 == <<"embed.cu/", Placeholder, "/", Placeholder>>

\* config.services of the prepare calls, as Object.entries lists it.
Entry(k, v) == [key |-> k, value |-> v]

Configs ==
    { <<>>,
      << Entry("youtube", True) >>,
      << Entry("custom", Obj("reCustom", Template2, "<iframe cu>", Undefined)) >>,
      << Entry("custom", Obj("reCustomG", Template1, "<iframe cu>", Undefined)) >>,
      << Entry("custom", Obj("reCustomOpt", Template1, "<iframe cu>", Undefined)) >>,
      << Entry("custom", Obj("reCustomOpt", Template1, "<iframe cu>", "join")) >>,
      << Entry("custom", Obj("reYtStar", Template1, "<iframe cu>", Undefined)) >>,
      << Entry("vimeo", Obj("reVimeo", Template1, "<iframe cu>", Undefined)) >>,
      << Entry("etc", Obj("reCustomOpt", Template1, "<iframe cu>", Undefined)),
         Entry("custom", Obj("reCustom", Template1, "<iframe cu>", "first")) >>,
      << Entry("youtube", True),
         Entry("custom", Obj("reCustom", UndefinedSeq, "<iframe cu>", Undefined)) >>,
      << Entry("custom", NullValue) >> }

\* The URLs a user pastes or submits.
Urls ==
    { <<"https://", "yt", "a">>,
      <<"yt", "$", "&">>,
      <<"yt">>,
      <<"https://", "vm", "b">>,
      <<"www.", "cu", "a">>,
      <<"cu">>,
      <<"cu", "a">>,
      <<"a", " ", "www.">>,
      <<"https://", "page">> }

Captions == {"", "cap"}

\* The metadata the collaborator answers with.
NoMeta ==
    [ogTitle |-> Undefined, ogDescription |-> Undefined, ogImage |-> <<>>,
     ogUrl |-> Undefined, ogSiteName |-> Undefined, twitterTitle |-> Undefined,
     twitterDescription |-> Undefined, twitterImage |-> <<>>,
     twitterSite |-> Undefined, requestUrl |-> Undefined, favicon |-> UndefinedSeq]

OgResponses ==
    { NoMeta,
      [NoMeta EXCEPT !.ogTitle = "", !.twitterTitle = "Hi",
                     !.favicon = <<"http://", "insecure.example/icon.png">>] }

\* Records of a document that an earlier session saved, under a configuration
\* that registered the service custom.
StoredRecords ==
    { [service |-> "custom", source |-> <<"www.", "cu", "a">>,
       embed |-> <<"embed.cu/", "a">>, caption |-> ""] }

\* The JSON bodies checked one by one: every combination of the string and
\* image fields, and every favicon of at most MaxIconLen tokens.
IconTokens == {"https://", "http://", "insecure.example/icon.png"}

RECURSIVE SeqsUpTo(_, _)
SeqsUpTo(S, n) ==
    IF n = 0 THEN {<<>>}
    ELSE LET shorter == SeqsUpTo(S, n - 1)
         IN  shorter \cup {Append(q, x) : q \in shorter, x \in S}

Favicons == SeqsUpTo(IconTokens, MaxIconLen) \cup {UndefinedSeq}

Images(url) == {<<>>, <<Undefined>>, <<url>>}

MetaInputs ==
    [ogTitle : {Undefined, Null, "", "og title"},
     ogDescription : {Undefined, "", "og description"},
     ogImage : Images("og.png"),
     ogUrl : {Undefined, "", "og url"},
     ogSiteName : {Undefined, "", "og site"},
     twitterTitle : {Undefined, "", "Hi"},
     twitterDescription : {Undefined, "", "tw description"},
     twitterImage : Images("tw.png"),
     twitterSite : {Undefined, "", "tw site"},
     requestUrl : {Undefined, "", "request url"},
     favicon : {UndefinedSeq}]
    \cup {[NoMeta EXCEPT !.favicon = f] : f \in Favicons}

\* config.services of the prepare calls examined on their own: every value a
\* caller can give under one name, and the pairs of the values that prepare
\* treats differently.
ServiceNames == {"youtube", "vimeo", "custom", "etc"}

Descriptors ==
    { Obj(regex, embedUrl, "<iframe cu>", id) :
        regex \in {"reCustom", NotRegExp, Undefined},
        embedUrl \in {Template1, UndefinedSeq, <<>>, NumberSeq},
        id \in {Undefined, "first", NotFunction} }
    \cup { Obj("reCustom", Template1, html, id) :
              html \in {Undefined, "", Number}, id \in {Undefined, "first"} }

ConfigValues == {True, False, NullValue, ArrayValue} \cup Descriptors

PairValues ==
    { True, NullValue, ArrayValue,
      Obj("reCustom", Template1, "<iframe cu>", Undefined),
      Obj("reVimeo", Template2, "<iframe cu>", "first"),
      Obj("reCustom", UndefinedSeq, "<iframe cu>", Undefined) }

PairNames ==
    { <<"youtube", "custom">>, <<"custom", "youtube">>, <<"vimeo", "custom">>,
      <<"custom", "vimeo">>, <<"etc", "custom">> }

PrepareConfigs ==
    {<<>>}
    \cup { <<Entry(k, v)>> : k \in ServiceNames, v \in ConfigValues }
    \cup { <<Entry(kk[1], v1), Entry(kk[2], v2)>> :
              kk \in PairNames,
              v1 \in PairValues, v2 \in PairValues }

-----------------------------------------------------------------------------
(* The state machine *)

Init ==
    /\ services = <<>>
    /\ patterns = <<>>
    /\ lastIndex = [r \in RegexObjs |-> 0]
    /\ tool = "unprepared"
    /\ data = EmptyData
    /\ element = NoView
    /\ nextView = 1
    /\ pending = {}
    /\ saved = NoRecord
    /\ restored = NoRecord
    /\ resolved = NoResolve
    /\ op = [name |-> "init"]

\* Embed.prepare({config}), lines 461-514.  The editor calls it when it sets
\* the tool up, before it constructs the tools of the blocks.
Prepare(config) ==
    /\ tool \in {"unprepared", "none"}
    /\ IF PrepareThrows(config)
       THEN /\ op' = [name |-> "prepare", threw |-> TRUE, config |-> config]
            /\ UNCHANGED <<services, patterns, tool>>
       ELSE /\ services' = PrepareServices(config)
            /\ patterns' = PreparePatterns(config)
            /\ tool' = "none"
            /\ op' = [name |-> "prepare", threw |-> FALSE, config |-> config]
    /\ UNCHANGED <<lastIndex, data, element, nextView, pending, saved, restored,
                   resolved>>

\* new Embed({data}), lines 72-79: a new block, or one restored from a saved
\* record.  The model follows the newest instance.
Construct(d) ==
    /\ tool # "unprepared"
    /\ tool' = "constructed"
    /\ data' = AssignData(d, EmptyData, NoView)
    /\ element' = NoView
    /\ nextView' = 1
    /\ pending' = {}
    /\ restored' = IF d = saved THEN d ELSE NoRecord
    /\ op' = [name |-> "construct"]
    /\ UNCHANGED <<services, patterns, lastIndex, saved, resolved>>

\* What a call of render or set data leaves behind.
Rendered(r) ==
    /\ data' = r.data
    /\ element' = r.element
    /\ lastIndex' = r.lastIndex
    /\ nextView' = IF r.threw THEN nextView ELSE nextView + 1
    /\ pending' = IF r.fetch THEN pending \cup {[view |-> nextView]} ELSE pending
    /\ resolved' = IF r.resolve.called THEN r.resolve ELSE resolved

\* The editor renders the block once it is constructed.
RenderCall ==
    /\ tool = "constructed"
    /\ element = NoView
    /\ LET r == Render(data, element, services, lastIndex, nextView)
       IN  /\ Rendered(r)
           /\ op' = [name |-> "render", threw |-> r.threw, resolve |-> r.resolve.called]
    /\ UNCHANGED <<services, patterns, tool, saved, restored>>

\* The paste and submit listeners of the form, lines 156-167.
Paste(url) ==
    /\ tool = "constructed"
    /\ element # NoView
    /\ nextView <= MaxViews
    /\ LET c == checkedUrl(url, data, element, services, patterns, lastIndex, nextView)
       IN  /\ Rendered(c.set)
           /\ op' = [name |-> "paste", url |-> url, service |-> c.service,
                     threw |-> c.set.threw, resolve |-> c.set.resolve.called]
    /\ restored' = NoRecord
    /\ UNCHANGED <<services, patterns, tool, saved>>

\* The user types into the caption input of the view.
EditCaption(c) ==
    /\ tool = "constructed"
    /\ element.hasCaption
    /\ element.caption # c
    /\ element' = [element EXCEPT !.caption = c]
    /\ restored' = NoRecord
    /\ op' = [name |-> "caption"]
    /\ UNCHANGED <<services, patterns, lastIndex, tool, data, nextView, pending,
                   saved, resolved>>

\* save(), lines 452-454.  The editor saves the blocks it has rendered.
Save ==
    /\ tool = "constructed"
    /\ element # NoView
    /\ data' = GetData(data, element)
    /\ saved' = GetData(data, element)
    /\ op' = [name |-> "save"]
    /\ UNCHANGED <<services, patterns, lastIndex, tool, element, nextView, pending,
                   restored, resolved>>

\* The container a response handler adds to: the one its render built
\* (the closure's container, lines 150 and 202-205).
ResponseContainer(req) == req.view

\* The metadata request req is answered with status 200 and the JSON body
\* meta: the then-handler of lines 199-206.
FetchOk(req, meta) ==
    /\ req \in pending
    /\ pending' = pending \ {req}
    /\ element' = IF element.id = ResponseContainer(req)
                  THEN [element EXCEPT !.card = <<OgNormalize(meta)>>, !.hasCaption = TRUE]
                  ELSE element
    /\ op' = [name |-> "response", status |-> 200, view |-> req.view, meta |-> meta,
              malformed |-> FALSE]
    /\ UNCHANGED <<services, patterns, lastIndex, tool, data, nextView, saved,
                   restored, resolved>>

\* FetchFail without the catch-handler: the rejection is left unhandled and
\* nothing is shown.
FetchFailUnhandled(req) ==
    /\ req \in pending
    /\ pending' = pending \ {req}
    /\ op' = [name |-> "response", status |-> 500, view |-> req.view, malformed |-> FALSE]
    /\ UNCHANGED <<services, patterns, lastIndex, tool, data, element, nextView, saved,
                   restored, resolved>>

\* It is answered with another status: the rejection of line 246 and the
\* catch-handler of lines 207-210.
FetchFail(req) ==
    /\ req \in pending
    /\ pending' = pending \ {req}
    /\ element' = IF element.id = ResponseContainer(req)
                  THEN [element EXCEPT !.message = ErrorMessage]
                  ELSE element
    /\ op' = [name |-> "response", status |-> 500, view |-> req.view, malformed |-> FALSE]
    /\ UNCHANGED <<services, patterns, lastIndex, tool, data, nextView, saved,
                   restored, resolved>>

\* It is answered with status 200 and a body that is not JSON: response.json()
\* at line 261 rejects with a SyntaxError, the rejection of _getOgData reaches
\* the same catch-handler, and textContent shows the error as text.
FetchMalformed(req) ==
    /\ req \in pending
    /\ pending' = pending \ {req}
    /\ element' = IF element.id = ResponseContainer(req)
                  THEN [element EXCEPT !.message = SyntaxErrorMessage]
                  ELSE element
    /\ op' = [name |-> "response", status |-> 200, view |-> req.view, malformed |-> TRUE]
    /\ UNCHANGED <<services, patterns, lastIndex, tool, data, nextView, saved,
                   restored, resolved>>

Next ==
    \/ \E config \in Configs : Prepare(config)
    \/ \E d \in {EmptyData} \cup StoredRecords \cup ({saved} \ {NoRecord}) : Construct(d)
    \/ RenderCall
    \/ \E url \in Urls : Paste(url)
    \/ \E c \in Captions : EditCaption(c)
    \/ Save
    \/ \E req \in pending : \E meta \in OgResponses : FetchOk(req, meta)
    \/ \E req \in pending : FetchFail(req)
    \/ \E req \in pending : FetchMalformed(req)

Spec == Init /\ [][Next]_vars

\* The link preview alone: a generic link has been submitted, its metadata
\* request is in flight, and the collaborator answers with any JSON body.
InitOg ==
    LET url == <<"https://", "page">>
        li == [r \in RegexObjs |-> 0]
        svcs == PrepareServices(<<>>)
        pats == PreparePatterns(<<>>)
        first == Render(AssignData(EmptyData, EmptyData, NoView), NoView, svcs, li, 1)
        c == checkedUrl(url, first.data, first.element, svcs, pats, li, 2)
    IN  /\ services = svcs
        /\ patterns = pats
        /\ lastIndex = c.set.lastIndex
        /\ tool = "constructed"
        /\ data = c.set.data
        /\ element = c.set.element
        /\ nextView = 3
        /\ pending = {[view |-> 2]}
        /\ saved = NoRecord
        /\ restored = NoRecord
        /\ resolved = NoResolve
        /\ op = [name |-> "paste", url |-> url, service |-> c.service,
                 threw |-> c.set.threw, resolve |-> c.set.resolve.called]

NextOg == \E req \in pending : \E meta \in MetaInputs : FetchOk(req, meta)

SpecOg == InitOg /\ [][NextOg]_vars

\* The registry alone: prepare is called with any configuration, again and
\* again.
NextPrepare == \E config \in PrepareConfigs : Prepare(config)

SpecPrepare == Init /\ [][NextPrepare]_vars

-----------------------------------------------------------------------------
(* Classification *)

\* The registered services whose pattern matches url, by their place in
\* Embed.services.
Matching(url) ==
    {i \in 1..Len(services) : Matches(services[i].value.regex, url)}

Min(S) == CHOOSE i \in S : \A j \in S : i <= j

\* url contains http://, https://, or www. followed by an allowed character.
LooksLikeLink(url) ==
    \E i \in 1..Len(url) :
        \/ url[i] = "http://"
        \/ url[i] = "https://"
        \/ url[i] = "www." /\ i + 1 <= Len(url) /\ url[i + 1] # " "

\* C1: after _checkedUrl(url), if url matches the pattern of some registered
\* service, the service found is a registered service whose pattern matches
\* url; if it matches none, the service is 'etc' when url looks like a link
\* and '' otherwise.
C1_ClassifyResult ==
    op.name = "paste" =>
        IF Matching(op.url) # {}
        THEN \E i \in Matching(op.url) : services[i].key = op.service
        ELSE op.service = IF LooksLikeLink(op.url) THEN "etc" ELSE ""

\* C2: when two registered services match the submitted url, _checkedUrl finds
\* the one that comes first in the merged table Embed.services.
C2_FirstMatchWins ==
    (op.name = "paste" /\ Cardinality(Matching(op.url)) >= 2) =>
        op.service = services[Min(Matching(op.url))].key

\* C3: a paste or submit never raises an exception.
C3_ClassifyNeverThrows == op.name = "paste" => ~op.threw

-----------------------------------------------------------------------------
(* Resolution *)

\* The last operation called _getEmbedData; resolved is what the call did.
Resolving == op.name \in {"render", "paste"} /\ op.resolve

IsIdString(id) == id # UndefinedSeq /\ id # <<>>

\* C4: the locator returned is the embed template with every placeholder
\* replaced by exactly the id string of the extractor, and holds no
\* placeholder.
C4_LocatorSubstitutesId ==
    (Resolving /\ ~resolved.threw /\ IsIdString(resolved.id)) =>
        /\ resolved.embed = Substituted(resolved.embedUrl, resolved.id)
        /\ \A p \in 1..Len(resolved.embed) : resolved.embed[p] # Placeholder

\* C5: a call of _getEmbedData with the (service, url) of the call before it
\* returns the locator the call before returned.
C5_ResolveIdempotent ==
    [][(/\ op'.name \in {"render", "paste"} /\ op'.resolve
        /\ resolved.called /\ ~resolved.threw
        /\ resolved'.service = resolved.service
        /\ resolved'.source = resolved.source)
       => (~resolved'.threw /\ resolved'.embed = resolved.embed)]_vars

\* C7: when the pattern of the service does not match the URL at resolution
\* time, _getEmbedData fails with an error and produces no locator: none is
\* returned and none is assigned to the tool's data.
C7_PatternMismatchFails ==
    (Resolving /\ resolved.regex # Undefined /\ ~resolved.found) =>
        /\ resolved.threw
        /\ op.threw
        /\ resolved.embed = UndefinedSeq
        /\ op.name = "paste" => data.embed = UndefinedSeq

\* C7, the case reached: a resolution whose pattern did not match.
C7_Witness == Resolving /\ resolved.regex # Undefined /\ ~resolved.found

\* C8: when the id extractor returns an empty string or no string,
\* _getEmbedData fails, and no locator is produced or stored in the data.
C8_IdExtractionFails ==
    (Resolving /\ resolved.found /\ ~IsIdString(resolved.id)) =>
        /\ resolved.threw
        /\ resolved.embed = UndefinedSeq
        /\ data.embed = UndefinedSeq

-----------------------------------------------------------------------------
(* Round trip *)

\* C6, for a record of the generic bucket: a tool constructed from a saved
\* record whose service is 'etc' and rendered returns, from save(), a record
\* with the same service, source, embed and caption, as long as the user has
\* changed nothing: before the metadata response arrives, after it arrives
\* and after it fails.
C6_RoundTrip ==
    (op.name = "save" /\ restored # NoRecord /\ restored.service = "etc") =>
        /\ saved.service = restored.service
        /\ saved.source = restored.source
        /\ saved.embed = restored.embed
        /\ saved.caption = restored.caption

-----------------------------------------------------------------------------
(* Link preview *)

\* The first non-empty value of an alias chain, '' when it has none.
FirstNonEmpty(chain) ==
    LET S == {i \in 1..Len(chain) : chain[i] \notin {Undefined, Null, ""}}
    IN  IF S = {} THEN "" ELSE chain[Min(S)]

\* The last operation delivered the JSON body op.meta to the current view.
PreviewShown ==
    /\ op.name = "response"
    /\ op.status = 200
    /\ element.id = op.view
    /\ element.card # <<>>

\* C9: every string field of the preview is the first non-empty value of its
\* alias chain, '' when the chain is empty; {ogTitle: "", twitterTitle: "Hi"}
\* gives the title "Hi"; no field is null or undefined.
C9_PreviewFallbackChains ==
    PreviewShown =>
        LET m == op.meta
            c == element.card[1]
        IN  /\ c.title = FirstNonEmpty(<<m.ogTitle, m.twitterTitle>>)
            /\ c.description = FirstNonEmpty(<<m.ogDescription, m.twitterDescription>>)
            /\ c.imageUrl = FirstNonEmpty(<<OptUrl(m.ogImage), OptUrl(m.twitterImage)>>)
            /\ c.url = FirstNonEmpty(<<m.ogUrl, m.requestUrl>>)
            /\ c.siteName = FirstNonEmpty(<<m.ogSiteName, m.twitterSite, m.ogTitle,
                                            m.twitterTitle>>)
            /\ (m.ogTitle = "" /\ m.twitterTitle = "Hi") => c.title = "Hi"
            /\ \A f \in {"title", "description", "imageUrl", "url", "siteName"} :
                   c[f] \notin {Undefined, Null}
            /\ c.icon # UndefinedSeq

\* C9, the case reached: an empty ogTitle and the twitterTitle "Hi", a
\* description that only the second alias gives, and a site name that falls
\* through to the title.
C9_Witness ==
    /\ PreviewShown
    /\ op.meta.ogTitle = "" /\ op.meta.twitterTitle = "Hi"
    /\ op.meta.ogDescription = Undefined /\ op.meta.twitterDescription = "tw description"
    /\ op.meta.ogSiteName = "" /\ op.meta.twitterSite = Undefined
    /\ element.card[1].title = "Hi"
    /\ element.card[1].siteName = "Hi"

\* C10: the icon of the preview is the favicon when the favicon begins with
\* https://, and '' for every other favicon.
C10_IconSecureOnly ==
    PreviewShown =>
        LET favicon == op.meta.favicon
        IN  element.card[1].icon =
                IF favicon # UndefinedSeq /\ Len(favicon) >= 1 /\ favicon[1] = "https://"
                THEN favicon ELSE <<>>

-----------------------------------------------------------------------------
(* The registry built by prepare *)

\* A valid service descriptor, as the specification words it.
ValidDescriptor(o) ==
    /\ o.regex \in RegexObjs
    /\ IsNonEmptyStringSeq(o.embedUrl)
    /\ IsNonEmptyString(o.html)
    /\ (o.id # Undefined => o.id \in IdFns)

ValidOverride(v) == v.type = "object" /\ ValidDescriptor(v.obj)

\* The registry holds under e.key what the override e supplies.
FromOverride(e) ==
    /\ HasKey(services, e.key)
    /\ Get(services, e.key).regex = e.value.obj.regex
    /\ Get(services, e.key).embedUrl = e.value.obj.embedUrl
    /\ Get(services, e.key).html = e.value.obj.html

DefaultNames == {SERVICES[i].key : i \in 1..Len(SERVICES)}

Default(n) == SERVICES[CHOOSE i \in 1..Len(SERVICES) : SERVICES[i].key = n].value

\* The names of the configuration whose value is true.
AllowList(config) ==
    {config[i].key : i \in {j \in 1..Len(config) : config[j].value = True}}

\* The names of the configuration that carry a valid override.
Overridden(config) ==
    {config[i].key : i \in {j \in 1..Len(config) : ValidOverride(config[j].value)}}

\* The last operation was a prepare call that returned.
Prepared == op.name = "prepare" /\ ~op.threw

\* C11: a prepare call that returns has put a caller's descriptor into the
\* registry if and only if its regex is a RegExp, its embedUrl and html are
\* non-empty strings and its id, when present, is a function; and every name
\* of the registry that is not a built-in one comes from such a descriptor.
C11_OverrideValidation ==
    Prepared =>
        /\ \A i \in 1..Len(op.config) :
               op.config[i].value.type = "object" =>
                   (ValidDescriptor(op.config[i].value.obj) <=> FromOverride(op.config[i]))
        /\ \A j \in 1..Len(services) :
               services[j].key \in DefaultNames \cup Overridden(op.config)

\* A valid descriptor was accepted next to an invalid one, which is absent.
C11_Witness ==
    /\ Prepared
    /\ \E i, j \in 1..Len(op.config) :
           /\ ValidOverride(op.config[i].value)
           /\ FromOverride(op.config[i])
           /\ op.config[j].value.type = "object"
           /\ ~ValidDescriptor(op.config[j].value.obj)
           /\ ~HasKey(services, op.config[j].key)

\* The configuration without its i-th entry.
Without(config, i) ==
    [j \in 1..(Len(config) - 1) |-> IF j < i THEN config[j] ELSE config[j + 1]]

\* An override (a value of type object) that is not a valid descriptor.
InvalidOverride(v) == TypeofObject(v) /\ ~ValidOverride(v)

\* C12: every prepare call returns without throwing, and for each invalid
\* override of its configuration (null, an array, an object that fails the
\* validation) the registry is the one built from the configuration without it.
C12_InvalidOverrideDropped ==
    op.name = "prepare" =>
        /\ ~op.threw
        /\ \A i \in 1..Len(op.config) :
               InvalidOverride(op.config[i].value) =>
                   /\ services = PrepareServices(Without(op.config, i))
                   /\ patterns = PreparePatterns(Without(op.config, i))

\* C13: after a prepare call, a built-in service without a valid override is
\* in the registry, unchanged, exactly when the allow-list is empty or names
\* it, and every valid override is in the registry, allow-listed or not.
C13_AllowList ==
    Prepared =>
        LET allow == AllowList(op.config)
            over == Overridden(op.config)
        IN  /\ \A n \in DefaultNames \ over :
                   /\ HasKey(services, n) <=> (allow = {} \/ n \in allow)
                   /\ HasKey(services, n) => Get(services, n) = Default(n)
            /\ \A i \in 1..Len(op.config) :
                   ValidOverride(op.config[i].value) => FromOverride(op.config[i])

\* The allow-list kept one built-in service and dropped another, and a valid
\* override whose name is not in the allow-list is in the registry.
C13_Witness ==
    /\ Prepared
    /\ AllowList(op.config) # {}
    /\ \E n \in DefaultNames \cap AllowList(op.config) : HasKey(services, n)
    /\ \E n \in DefaultNames : ~HasKey(services, n)
    /\ \E i \in 1..Len(op.config) :
           /\ ValidOverride(op.config[i].value)
           /\ op.config[i].key \notin AllowList(op.config)
           /\ FromOverride(op.config[i])

\* The place of the name n in the registry.
Place(n) == CHOOSE j \in 1..Len(services) : services[j].key = n

\* C14: after a prepare call, the entry of a valid override has the fields the
\* override supplies; where the override omits id, the entry keeps the id of
\* the built-in service it is merged into (and has none when the name is new
\* or the allow-list dropped the built-in one); an override for a name that no
\* kept built-in service has comes after every built-in service.
C14_OverrideMerge ==
    Prepared =>
        LET allow == AllowList(op.config)
            kept == {n \in DefaultNames : allow = {} \/ n \in allow}
        IN  \A i \in 1..Len(op.config) :
                ValidOverride(op.config[i].value) =>
                    LET n == op.config[i].key
                        o == op.config[i].value.obj
                    IN  /\ FromOverride(op.config[i])
                        /\ Get(services, n).id =
                               IF o.id # Undefined THEN o.id
                               ELSE IF n \in kept THEN Default(n).id ELSE Undefined
                        /\ n \notin kept =>
                               \A m \in kept : Place(m) < Place(n)

-----------------------------------------------------------------------------
(* Failure of the metadata request *)

\* The request of the view shown was answered with a status other than 200 or
\* with a body that is not JSON.
FetchFailed ==
    /\ op.name = "response"
    /\ op.status # 200 \/ op.malformed
    /\ op.view = element.id

\* C15: when the metadata request of the view shown fails, the catch-handler
\* has run (no rejection is left unhandled): the preloader of the view shows a
\* message, a non-empty string, and the view has no preview card.
C15_FetchFailureMessage ==
    FetchFailed =>
        /\ element.message \in {ErrorMessage, SyntaxErrorMessage}
        /\ element.message # ""
        /\ element.card = <<>>

\* A generic link is shown, its request was answered with another status
\* than 200, and the view shows the message of line 246.
C15_Witness ==
    /\ FetchFailed
    /\ op.status # 200
    /\ element.kind = "etc"
    /\ element.message = ErrorMessage
    /\ element.card = <<>>

-----------------------------------------------------------------------------
(* The saved record *)

\* C16: save(), after a URL was submitted or a record restored, returns a
\* record whose embed is a string: for a registered service the locator that
\* _getEmbedData returned for the record's source, for the service '' or
\* 'etc' the empty string; never undefined.
C16_SavedEmbed ==
    (op.name = "save" /\ saved.service # Undefined) =>
        /\ saved.embed # UndefinedSeq
        /\ saved.service \in {"", "etc"} => saved.embed = <<>>
        /\ saved.service \notin {"", "etc"} =>
               /\ resolved.called /\ ~resolved.threw
               /\ resolved.service = saved.service
               /\ resolved.source = saved.source
               /\ saved.embed = resolved.embed

-----------------------------------------------------------------------------
(* The generic bucket *)

\* C17: when _checkedUrl(url) finds 'etc', url matches the built-in generic
\* pattern and the pattern of no registered service of another name (among
\* the patterns without the g flag, whose test does not depend on lastIndex).
C17_GenericBucketFallbackOnly ==
    (op.name = "paste" /\ op.service = "etc") =>
        /\ EtcMatches(op.url)
        /\ \A i \in 1..Len(services) :
               (services[i].key # "etc" /\ ~RegexDef(services[i].value.regex).global)
                   => ~Matches(services[i].value.regex, op.url)

-----------------------------------------------------------------------------
(* Overlapping submissions *)

\* A response to the request of a view that is no longer shown leaves the
\* view shown and the data as they are.
StaleResponseInert ==
    [][(op'.name = "response" /\ op'.view # element.id)
           => (element' = element /\ data' = data)]_vars

\* C18: after every submission of a URL the view shown and the data are those
\* of that URL, save() returns the record of the URL of the view shown, and a
\* response to the request of a view that is no longer shown changes neither
\* the view shown nor the data.
C18_LastSubmissionWins ==
    [][/\ op'.name = "paste" => (element'.source = op'.url /\ data'.source = op'.url)
       /\ op'.name = "save" => saved'.source = element.source
       /\ (op'.name = "response" /\ op'.view # element.id)
              => (element' = element /\ data' = data)]_vars

-----------------------------------------------------------------------------
(* Consistency of the registry *)

\* Embed.patterns has the names of Embed.services in their order, each with
\* the regex of the service.
RegistryConsistent ==
    /\ Len(patterns) = Len(services)
    /\ \A i \in 1..Len(services) :
           /\ patterns[i].key = services[i].key
           /\ patterns[i].value = services[i].value.regex

\* The registry holds nothing but the built-in services and the valid
\* overrides of the configuration of the last prepare call.
LatestOnly ==
    \A i \in 1..Len(services) :
        IF services[i].key \in Overridden(op.config)
        THEN \E j \in 1..Len(op.config) :
                 /\ op.config[j].key = services[i].key
                 /\ FromOverride(op.config[j])
        ELSE /\ services[i].key \in DefaultNames
             /\ services[i].value = Default(services[i].key)

\* The two maps after every prepare call that returns.
RegistryAfterPrepare == Prepared => (RegistryConsistent /\ LatestOnly)

\* C19: a prepare call that returns leaves the two maps consistent and built
\* from its configuration alone; every other operation leaves the two maps
\* and the patterns they hold (their lastIndex included) as they are.
C19_RegistryConsistent ==
    [][/\ (op'.name = "prepare" /\ ~op'.threw) => (RegistryConsistent /\ LatestOnly)'
       /\ op'.name # "prepare" =>
              /\ services' = services
              /\ patterns' = patterns
              /\ \A i \in 1..Len(patterns) :
                     lastIndex'[patterns[i].value] = lastIndex[patterns[i].value]]_vars

=============================================================================
